---- MODULE Spec2Model ----
(***************************************************************************)
(* Ktop: main.go.  The report driver (main), the sampler/aggregator        *)
(* (printPodMetrics), the node table (printNodeMetrics), the table         *)
(* renderer (loadFunctions / runFunctions) and the spinner goroutine       *)
(* (goSpinner) sharing one mutex and one terminal.                         *)
(***************************************************************************)
EXTENDS Integers, Sequences, FiniteSets, TLC

(***************************************************************************)
(* Bounds of the model.                                                    *)
(***************************************************************************)
\* Largest number of pods the pod listing of one node returns.
MaxPods == 2

\* The same, in the runs checked for liveness.
MaxPodsFair == 1

(***************************************************************************)
(* Formatting: fmt.Sprintf("%d m", v) and units.BytesSize(float64(v)).     *)
(***************************************************************************)
\* TLC re-evaluates an operator's argument at each use; the definitions below
\* bind their arguments once, as the elements of a one-element set.
Digit(d) == SubSeq("0123456789", d + 1, d + 1)

RECURSIVE Itoa(_)
\* strconv of a non-negative integer, as %d prints it.
Itoa(n0) ==
    CHOOSE s \in { IF n < 10 THEN Digit(n) ELSE Itoa(n \div 10) \o Digit(n % 10)
                   : n \in {n0} } : TRUE

\* fmt.Sprintf("%d m", v)
FmtMilli(v) == Itoa(v) \o " m"

\* go-units binaryAbbrs; BytesSize divides by 1024 while size >= 1024.
BinaryAbbrs == <<"B", "KiB", "MiB", "GiB", "TiB", "PiB", "EiB", "ZiB", "YiB">>

Base == 1024

RECURSIVE Pow(_, _)
Pow(b, e0) == CHOOSE p \in { IF e = 0 THEN 1 ELSE b * Pow(b, e - 1) : e \in {e0} } : TRUE

RECURSIVE UnitIndex(_, _)
\* i after the loop "for size >= base && i < unitsLimit { size /= base; i++ }",
\* started at UnitIndex(n, 0).
UnitIndex(n0, i0) ==
    CHOOSE u \in { IF n >= Base /\ i < Len(BinaryAbbrs) - 1
                   THEN UnitIndex(n \div Base, i + 1) ELSE i
                   : <<n, i>> \in {<<n0, i0>>} } : TRUE

NumDigits(n) == Len(Itoa(n))

RECURSIVE PadLeft(_, _)
\* s left-padded with zeros to w characters.
PadLeft(s0, w) ==
    CHOOSE p \in { IF Len(s) >= w THEN s ELSE PadLeft("0" \o s, w) : s \in {s0} } : TRUE

RECURSIVE StripZeros(_)
\* %g drops the trailing zeros of the fraction.
StripZeros(s0) ==
    CHOOSE z \in { IF Len(s) > 0 /\ SubSeq(s, Len(s), Len(s)) = "0"
                   THEN StripZeros(SubSeq(s, 1, Len(s) - 1))
                   ELSE s
                   : s \in {s0} } : TRUE

RECURSIVE Halve(_, _)
\* The fraction r/b in lowest terms (b is a power of two).
Halve(r0, b0) ==
    CHOOSE h \in { IF b > 1 /\ r % 2 = 0 THEN Halve(r \div 2, b \div 2) ELSE <<r, b>>
                   : <<r, b>> \in {<<r0, b0>>} } : TRUE

\* The digits of "%.4g" of q + r/b with f digits of fraction: round half to
\* even, x.xxx * 10^f as an integer.
Round4g(q, r, b, f) ==
    LET num == r * Pow(10, f)
        fl  == q * Pow(10, f) + (num \div b)
        rem == num % b
    IN  IF 2 * rem > b \/ (2 * rem = b /\ fl % 2 = 1) THEN fl + 1 ELSE fl

\* m / 10^f printed with its trailing zeros and a bare point removed.
Render4g(m, f) ==
    CHOOSE s \in { IF fp = "" THEN ip ELSE ip \o "." \o fp
                   : <<ip, fp>> \in
                       { << Itoa(m \div Pow(10, f)),
                            IF f = 0 THEN "" ELSE StripZeros(PadLeft(Itoa(m % Pow(10, f)), f)) >> }
                 } : TRUE

\* fmt "%.4g" of q + r/b (0 <= r < b): four significant digits.
Fmt4g(q0, r0, b0) ==
    CHOOSE s \in { Render4g(m, f)
                   : <<m, f>> \in
                       { << Round4g(q, rb[1], rb[2], f), f >>
                         : <<q, rb, f>> \in
                             { << q0, Halve(r0, b0),
                                  IF NumDigits(q0) >= 4 THEN 0 ELSE 4 - NumDigits(q0) >> } }
                 } : TRUE

\* units.BytesSize(float64(n)) == CustomSize("%.4g%s", n, 1024.0, binaryAbbrs)
BytesSize(n0) ==
    CHOOSE s \in { Fmt4g(n \div b, n % b, b) \o BinaryAbbrs[i + 1]
                   : <<n, i, b>> \in
                       { << n0, UnitIndex(n0, 0), Pow(Base, UnitIndex(n0, 0)) >> } } : TRUE

(***************************************************************************)
(* The cluster as the API answers it: the inputs of one run.               *)
(***************************************************************************)
SpotTolerationKey == "kubernetes.azure.com/scalesetpriority"

SpotTolerationValue == "spot"

\* corev1.Node objects of the node listing (name, capacity, allocatable).
NodeObjs ==
    << [Name |-> "aks-sys-1", CapCpu |-> 8000, AllocCpu |-> 7820,
        CapMem |-> 1610612736, AllocMem |-> 1073741824],
       [Name |-> "n2", CapCpu |-> 2000, AllocCpu |-> 1900,
        CapMem |-> 536870912, AllocMem |-> 37480000] >>

\* Answers of Nodes().List: the listing is a prefix of NodeObjs.
NodeLists == { SubSeq(NodeObjs, 1, k) : k \in 0..Len(NodeObjs) }

\* flag.Arg(0): no argument, the name of a listed node, or of none.
Args == {""} \cup { NodeObjs[k].Name : k \in 1..Len(NodeObjs) } \cup {"ghost"}

NoResources == [Cpu |-> 0, Mem |-> 0]

\* corev1.Container: Name, Resources.Requests, Resources.Limits.
AppContainer ==
    [Name |-> "manager", Requests |-> [Cpu |-> 100, Mem |-> 67108864],
     Limits |-> [Cpu |-> 1000, Mem |-> 134217728]]

SidecarContainer == [Name |-> "proxy", Requests |-> NoResources, Limits |-> NoResources]

SmallContainer ==
    [Name |-> "manager", Requests |-> [Cpu |-> 50, Mem |-> 33554432], Limits |-> NoResources]

\* The zero value of corev1.Container (var containerSpec corev1.Container).
ZeroContainer == [Name |-> "", Requests |-> NoResources, Limits |-> NoResources]

\* The k-th pod of a node's pod listing (corev1.Pod: Name, Spec.Containers,
\* Spec.Tolerations).
PodObj(node, k) ==
    IF k % 2 = 1
    THEN [Name |-> "helm-controller-" \o Itoa(k),
          Containers |-> <<AppContainer, SidecarContainer>>,
          Tolerations |-> << [Key |-> "node.kubernetes.io/not-ready", Value |-> ""],
                             [Key |-> SpotTolerationKey, Value |-> SpotTolerationValue] >>]
    ELSE [Name |-> "src-" \o Itoa(k),
          Containers |-> <<SmallContainer>>,
          Tolerations |-> << [Key |-> SpotTolerationKey, Value |-> "regular"] >>]

\* Answers of Pods("").List for a node: an error (with the empty list the
\* client returns beside it) or the first k pods, k <= MaxPods.
PodListsUpTo(node, max) ==
    { [err |-> TRUE, Items |-> <<>>] } \cup
    { [err |-> FALSE, Items |-> [k \in 1..n |-> PodObj(node, k)]] : n \in 0..max }

PodLists(node) == PodListsUpTo(node, MaxPods)

\* Answers of PodMetricses(ns).Get for one pod: an error, or the usage of
\* each container the metrics server reports (Name, Usage cpu/memory).
MetricsAnswers ==
    { [err |-> TRUE, Containers |-> <<>>],
      [err |-> FALSE, Containers |-> <<>>],
      [err |-> FALSE, Containers |-> << [Name |-> "manager", Cpu |-> 6, Mem |-> 37480000] >>],
      [err |-> FALSE, Containers |-> << [Name |-> "proxy", Cpu |-> 32, Mem |-> 1536],
                                        [Name |-> "manager", Cpu |-> 6, Mem |-> 37480000] >>],
      [err |-> FALSE, Containers |-> << [Name |-> "istio-init", Cpu |-> 2, Mem |-> 1024],
                                        [Name |-> "manager", Cpu |-> 17, Mem |-> 67108864],
                                        [Name |-> "manager", Cpu |-> 6, Mem |-> 1023] >>] }

\* The answers of the runs checked for liveness: the error and one usage list.
MetricsAnswersFair ==
    { a \in MetricsAnswers : a.err \/ Len(a.Containers) = 3 }

(***************************************************************************)
(* printPodMetrics: sampling and aggregation helpers.                      *)
(***************************************************************************)
RECURSIVE FindContainerSpec(_, _)
\* The first container of the pod spec with this name, else the zero value.
FindContainerSpec(containers, name) ==
    IF containers = <<>> THEN ZeroContainer
    ELSE IF Head(containers).Name = name THEN Head(containers)
    ELSE FindContainerSpec(Tail(containers), name)

\* Mutant: the unmatched entry is not skipped.
SkippedNever(containerSpec) == FALSE

\* if containerSpec.Name == "" { continue }
Skipped(containerSpec) == containerSpec.Name = ""

RECURSIVE SpotToleration(_)
\* "true" at the first toleration with the spot key and value, else "".
SpotToleration(tols) ==
    IF tols = <<>> THEN ""
    ELSE IF Head(tols).Key = SpotTolerationKey /\ Head(tols).Value = SpotTolerationValue
    THEN "true"
    ELSE SpotToleration(Tail(tols))

\* The values read for one matched container (the locals of the loop body).
SampleOf(pod, cm, containerSpec) ==
    [Pod |-> pod.Name, Container |-> cm.Name,
     cpuUsage |-> cm.Cpu, cpuRequest |-> containerSpec.Requests.Cpu,
     cpuLimit |-> containerSpec.Limits.Cpu,
     memoryUsage |-> cm.Mem, memoryRequest |-> containerSpec.Requests.Mem,
     memoryLimit |-> containerSpec.Limits.Mem,
     spotToleration |-> SpotToleration(pod.Tolerations)]

\* row := []string{pod.Name, containerName, "%d m" x3, BytesSize x3, spot}
PodRow(s) ==
    << s.Pod, s.Container, FmtMilli(s.cpuUsage), FmtMilli(s.cpuRequest),
       FmtMilli(s.cpuLimit), BytesSize(s.memoryUsage), BytesSize(s.memoryRequest),
       BytesSize(s.memoryLimit), s.spotToleration >>

ZeroTotals ==
    [CPUUsage |-> 0, CPURequest |-> 0, CPULimit |-> 0,
     MemoryUsage |-> 0, MemoryRequest |-> 0, MemoryLimit |-> 0]

\* Mutant: the CPU limit total accumulates the request.
AddSampleWrongLimit(t, s) ==
    [CPUUsage |-> t.CPUUsage + s.cpuUsage,
     CPURequest |-> t.CPURequest + s.cpuRequest,
     CPULimit |-> t.CPULimit + s.cpuRequest,
     MemoryUsage |-> t.MemoryUsage + s.memoryUsage,
     MemoryRequest |-> t.MemoryRequest + s.memoryRequest,
     MemoryLimit |-> t.MemoryLimit + s.memoryLimit]

\* totalCPUUsage += cpuUsage ... totalMemoryLimit += memoryLimit
AddSample(t, s) ==
    [CPUUsage |-> t.CPUUsage + s.cpuUsage,
     CPURequest |-> t.CPURequest + s.cpuRequest,
     CPULimit |-> t.CPULimit + s.cpuLimit,
     MemoryUsage |-> t.MemoryUsage + s.memoryUsage,
     MemoryRequest |-> t.MemoryRequest + s.memoryRequest,
     MemoryLimit |-> t.MemoryLimit + s.memoryLimit]

RECURSIVE ProcessContainers(_, _, _, _)
\* for _, containerMetrics := range podMetrics.Containers { ... }: the rows
\* and totals after the loop, from the rows and totals before it.
ProcessContainers(pod, cms, rows, t) ==
    IF cms = <<>> THEN [rows |-> rows, totals |-> t]
    ELSE LET cm == Head(cms)
             containerSpec == FindContainerSpec(pod.Containers, cm.Name)
         IN  IF Skipped(containerSpec)
             THEN ProcessContainers(pod, Tail(cms), rows, t)
             ELSE LET s == SampleOf(pod, cm, containerSpec)
                  IN  ProcessContainers(pod, Tail(cms), Append(rows, PodRow(s)),
                                        AddSample(t, s))

PodHeader(n) ==
    << "Pods on " \o n.Name, "Container", "CPU Usage", "CPU Request", "CPU Limit",
       "Mem Usage", "Mem Request", "Mem Limit", "Spot Tolerance" >>

TotalHeader ==
    << "Pod total capacity on Node", "CPU Usage", "CPU Request", "Mem Usage", "Mem Request" >>

\* totalPods := []string{"Total", "", ...}
TotalPodsRow(t) ==
    << "Total", "", FmtMilli(t.CPUUsage), FmtMilli(t.CPURequest), FmtMilli(t.CPULimit),
       BytesSize(t.MemoryUsage), BytesSize(t.MemoryRequest), BytesSize(t.MemoryLimit), "" >>

\* totalRow := []string{node.Name, ...}
TotalRow(n, t) ==
    << n.Name, FmtMilli(t.CPUUsage), FmtMilli(t.CPURequest),
       BytesSize(t.MemoryUsage), BytesSize(t.MemoryRequest) >>

\* Mutant: the failed fetch ends the loop (break instead of continue).
AfterFetchErrorBreak(i, n) == n

\* continue: the loop goes on with the next pod (i pods done out of n).
AfterFetchError(i, n) == i + 1

(***************************************************************************)
(* printNodeMetrics: the node table.                                       *)
(***************************************************************************)
NodeHeader == << "Node", "CPU Capacity", "CPU Allocatable", "Mem Capacity", "Mem Allocatable" >>

NodeRow(n) ==
    << n.Name, FmtMilli(n.CapCpu), FmtMilli(n.AllocCpu),
       BytesSize(n.CapMem), BytesSize(n.AllocMem) >>

(***************************************************************************)
(* loadFunctions: column widths and the printed lines.                     *)
(***************************************************************************)
Max(a, b) == IF a > b THEN a ELSE b

RECURSIVE MeasureRows(_, _)
\* for _, row := range tableData { for i, cell := range row { if len(cell) >
\* columnWidths[i] { columnWidths[i] = len(cell) } } }
MeasureRows(rows0, widths0) ==
    CHOOSE m \in
      { IF rows = <<>> THEN widths
        ELSE MeasureRows(Tail(rows),
                [i \in DOMAIN widths |->
                    IF i \in DOMAIN Head(rows) THEN Max(widths[i], Len(Head(rows)[i]))
                    ELSE widths[i]])
        : <<rows, widths>> \in {<<rows0, widths0>>} } : TRUE

\* Mutant: the header row is not measured.
ColumnWidthsSkipHeader(tableData) ==
    MeasureRows(Tail(tableData), [i \in DOMAIN tableData[1] |-> 0])

\* columnWidths := make([]int, len(tableData[0])), then the measuring loop.
ColumnWidths(tableData) == MeasureRows(tableData, [i \in DOMAIN tableData[1] |-> 0])

\* Mutant: the toggle is never flipped.
ToggleStuck(a) == a

\* alternateColor = !alternateColor
Toggle(a) == ~a

\* " %-Ns " + "│": the cell padded to N, one space each side.
CellWidth(cell, w) == Max(Len(cell), w) + 2

\* One line of printDataRow: what each cell occupies, the background used.
DataLine(row, widths, alt, residue) ==
    [part |-> "row", cells |-> row,
     widths |-> [i \in DOMAIN row |-> CellWidth(row[i], widths[i])],
     alt |-> alt, residue |-> residue]

\* One line of printTopDelimiterRow / printDelimiterRow / printBottomDelimiterRow:
\* strings.Repeat("─", width+2) per column.
RuleLine(part, widths, residue) ==
    [part |-> part, cells |-> <<>>,
     widths |-> [i \in DOMAIN widths |-> widths[i] + 2],
     alt |-> TRUE, residue |-> residue]

(***************************************************************************)
(* goSpinner.                                                              *)
(***************************************************************************)
Chars == << "|", "/", "-", "\\" >>

\* Mutant: the errors are numbered from 0.
ErrNumberZeroBased(i) == i

\* fmt.Printf("%d. %v\n", i+1, err): the number printed for errorsList[i].
ErrNumber(i) == i + 1

(***************************************************************************)
(* State.                                                                  *)
(***************************************************************************)
VARIABLES
    helpFlag,       \* *helpFlag
    nodeFlag,       \* flag.Arg(0)
    pc,             \* where main is
    exitCode,       \* the process exit status once pc = "exited", else -1
    fatal,          \* the setup call that failed, "" if none
    nodeName,       \* the package variable nodeName
    nodes,          \* nodes.Items
    foundNode,      \* <<>> for nil, else <<the node found>>
    idx,            \* nodes of the loop already printed, plus one
    node,           \* the node printPodMetrics / printNodeMetrics work on
    errorsList,     \* errorsList
    pods,           \* pods.Items
    podIdx,         \* pods of the loop already visited (the progress bar count)
    responses,      \* the metrics answers received for the visited pods
    podTableData,   \* podTableData
    totalTableData, \* totalTableData
    totals,         \* totalCPUUsage ... totalMemoryLimit
    tableData,      \* the table handed to loadFunctions / runFunctions
    tableKind,      \* which table that is: "detail", "totals" or "node"
    columnWidths,   \* columnWidths captured by the closures
    alternateColor, \* alternateColor captured by printDataRow
    rowIdx,         \* next row of tableData[1:] to print
    fn,             \* the function rendering: "pod" or "node"
    lock,           \* the mutex: "free", "main" or "spinner"
    spc,            \* where the spinner goroutine is: "off", "lock", "print", "unlock"
    spinI,          \* i of goSpinner
    curLine,        \* what the terminal's current line holds (spinner, bar)
    lines,          \* the lines printed since runFunctions last erased the line
    printed         \* tables completed and messages printed on stdout, in order

vars == << helpFlag, nodeFlag, pc, exitCode, fatal, nodeName, nodes, foundNode, idx,
           node, errorsList, pods, podIdx, responses, podTableData, totalTableData,
           totals, tableData, tableKind, columnWidths, alternateColor, rowIdx, fn,
           lock, spc, spinI, curLine, lines, printed >>

flagVars == << helpFlag, nodeFlag >>
driverVars == << nodeName, nodes, foundNode, idx, node >>
podVars == << pods, podIdx, responses, podTableData, totalTableData, totals >>
renderVars == << tableData, tableKind, columnWidths, alternateColor, rowIdx, fn >>
spinVars == << spc, spinI >>

NoNode == [Name |-> "", CapCpu |-> 0, AllocCpu |-> 0, CapMem |-> 0, AllocMem |-> 0]

Init ==
    /\ helpFlag \in BOOLEAN
    /\ nodeFlag \in Args
    /\ pc = "start"
    /\ exitCode = -1
    /\ fatal = ""
    /\ nodeName = ""
    /\ nodes = <<>>
    /\ foundNode = <<>>
    /\ idx = 1
    /\ node = NoNode
    /\ errorsList = <<>>
    /\ pods = <<>>
    /\ podIdx = 0
    /\ responses = <<>>
    /\ podTableData = <<>>
    /\ totalTableData = <<>>
    /\ totals = ZeroTotals
    /\ tableData = <<>>
    /\ tableKind = ""
    /\ columnWidths = <<>>
    /\ alternateColor = TRUE
    /\ rowIdx = 0
    /\ fn = ""
    /\ lock = "free"
    /\ spc = "off"
    /\ spinI = 0
    /\ curLine = ""
    /\ lines = <<>>
    /\ printed = <<>>

(***************************************************************************)
(* main: flags and setup (lines 49-97).                                    *)
(***************************************************************************)
\* os.Exit(code), log.Fatalf or the return of main: the process is gone.
Exit(code) == pc' = "exited" /\ exitCode' = code

\* flag.Parse, -h, go goSpinner(), nodeName = nodeFlag.
ParseFlags ==
    /\ pc = "start"
    /\ IF helpFlag
       THEN /\ Exit(0)
            /\ printed' = Append(printed, [k |-> "help"])
            /\ UNCHANGED << nodeName, spc >>
       ELSE /\ spc' = "lock"
            /\ nodeName' = IF nodeFlag # "" THEN nodeFlag ELSE nodeName
            /\ pc' = "loadKubeConfig"
            /\ UNCHANGED << exitCode, printed >>
    /\ UNCHANGED << flagVars, fatal, nodes, foundNode, idx, node, errorsList, podVars,
                    renderVars, lock, spinI, curLine, lines >>

\* config, err := loadKubeConfig(); log.Fatalf on error.
LoadKubeConfig ==
    /\ pc = "loadKubeConfig"
    /\ \E ok \in BOOLEAN :
        IF ok THEN pc' = "newClientset" /\ UNCHANGED << exitCode, fatal >>
        ELSE Exit(1) /\ fatal' = "kubeconfig"
    /\ UNCHANGED << flagVars, driverVars, errorsList, podVars, renderVars, lock,
                    spinVars, curLine, lines, printed >>

\* clientset, err := kubernetes.NewForConfig(config); log.Fatalf on error.
NewClientset ==
    /\ pc = "newClientset"
    /\ \E ok \in BOOLEAN :
        IF ok THEN pc' = "newMetricsClientset" /\ UNCHANGED << exitCode, fatal >>
        ELSE Exit(1) /\ fatal' = "clientset"
    /\ UNCHANGED << flagVars, driverVars, errorsList, podVars, renderVars, lock,
                    spinVars, curLine, lines, printed >>

\* metricsClientset, err := metricsv.NewForConfig(config); Printf and return.
NewMetricsClientset ==
    /\ pc = "newMetricsClientset"
    /\ \E ok \in BOOLEAN :
        IF ok THEN pc' = "listNodes" /\ UNCHANGED << exitCode, fatal, printed >>
        ELSE /\ Exit(0)
             /\ fatal' = "metricsClientset"
             /\ printed' = Append(printed, [k |-> "message"])
    /\ UNCHANGED << flagVars, driverVars, errorsList, podVars, renderVars, lock,
                    spinVars, curLine, lines >>

RECURSIVE FindNode(_, _)
\* for _, node := range nodes.Items { if node.Name == nodeName { foundNode =
\* &node; break } }
FindNode(items, name) ==
    IF items = <<>> THEN <<>>
    ELSE IF Head(items).Name = name THEN << Head(items) >>
    ELSE FindNode(Tail(items), name)

\* nodes, err := Nodes().List(...); Printf and return on error; else the search.
ListNodes ==
    /\ pc = "listNodes"
    /\ \/ /\ Exit(0)
          /\ fatal' = "nodes"
          /\ printed' = Append(printed, [k |-> "message"])
          /\ UNCHANGED << nodes, foundNode >>
       \/ \E items \in NodeLists :
          /\ nodes' = items
          /\ foundNode' = FindNode(items, nodeName)
          /\ pc' = "loop"
          /\ UNCHANGED << exitCode, fatal, printed >>
    /\ UNCHANGED << flagVars, nodeName, idx, node, errorsList, podVars, renderVars,
                    lock, spinVars, curLine, lines >>

(***************************************************************************)
(* main: the node loop (lines 108-119).                                    *)
(***************************************************************************)
\* foundNode == nil: for _, node := range nodes.Items { Println(erase); ... }
LoopAllNodes ==
    /\ pc = "loop"
    /\ foundNode = <<>>
    /\ idx <= Len(nodes)
    /\ node' = nodes[idx]
    /\ curLine' = ""
    /\ pc' = "listPods"
    /\ UNCHANGED << flagVars, exitCode, fatal, nodeName, nodes, foundNode, idx,
                    errorsList, podVars, renderVars, lock, spinVars, lines, printed >>

\* foundNode != nil: printPodMetrics(*foundNode, ...); printNodeMetrics(*foundNode)
LoopFoundNode ==
    /\ pc = "loop"
    /\ foundNode # <<>>
    /\ idx = 1
    /\ node' = foundNode[1]
    /\ pc' = "listPods"
    /\ UNCHANGED << flagVars, exitCode, fatal, nodeName, nodes, foundNode, idx,
                    errorsList, podVars, renderVars, lock, spinVars, curLine, lines,
                    printed >>

LoopDone == IF foundNode = <<>> THEN idx > Len(nodes) ELSE idx > 1

\* The lines the error list prints: the heading, then "%d. %v" per error.
ErrorLines(errs) ==
    << [k |-> "errors"] >> \o
    [i \in 1..Len(errs) |-> [k |-> "error", n |-> ErrNumber(i - 1), err |-> errs[i]]]

\* if len(errorsList) > 0 { ... }, then main returns.
PrintErrors ==
    /\ pc = "loop"
    /\ LoopDone
    /\ IF Len(errorsList) > 0
       THEN curLine' = "" /\ printed' = printed \o ErrorLines(errorsList)
       ELSE UNCHANGED << curLine, printed >>
    /\ Exit(0)
    /\ UNCHANGED << flagVars, fatal, driverVars, errorsList, podVars, renderVars,
                    lock, spinVars, lines >>

(***************************************************************************)
(* printPodMetrics (lines 164-316).                                        *)
(***************************************************************************)
\* The pod listing, the progress bar, the two headers (lines 166-190), the
\* listing answered from the set answers.
ListPodsOf(answers) ==
    /\ pc = "listPods"
    /\ \E ans \in answers :
        /\ pods' = ans.Items
        /\ errorsList' = IF ans.err
                         THEN Append(errorsList, [op |-> "list", node |-> node.Name, pod |-> ""])
                         ELSE errorsList
    /\ podIdx' = 0
    /\ responses' = <<>>
    /\ podTableData' = << PodHeader(node) >>
    /\ totalTableData' = << TotalHeader >>
    /\ totals' = ZeroTotals
    /\ pc' = "fetch"
    /\ UNCHANGED << flagVars, exitCode, fatal, driverVars, renderVars, lock, spinVars,
                    curLine, lines, printed >>

ListPods == ListPodsOf(PodLists(node))

\* One iteration of "for _, pod := range pods.Items" (lines 193-268), the
\* metrics call answered from the set answers.
FetchPodMetricsOf(answers) ==
    /\ pc = "fetch"
    /\ podIdx < Len(pods)
    /\ \E ans \in answers :
        LET pod == pods[podIdx + 1]
            r   == ProcessContainers(pod, ans.Containers, podTableData, totals)
        IN  /\ responses' = Append(responses, ans)
            /\ IF ans.err
               THEN /\ errorsList' = Append(errorsList,
                                       [op |-> "get", node |-> node.Name, pod |-> pod.Name])
                    /\ podIdx' = AfterFetchError(podIdx, Len(pods))
                    /\ UNCHANGED << podTableData, totals >>
               ELSE /\ podTableData' = r.rows
                    /\ totals' = r.totals
                    /\ podIdx' = podIdx + 1
                    /\ UNCHANGED errorsList
    \* bar.Add(1): the bar is drawn on the current line, cleared when full.
    /\ curLine' = IF podIdx + 1 >= Len(pods) THEN "" ELSE "bar"
    /\ UNCHANGED << flagVars, pc, exitCode, fatal, driverVars, pods, totalTableData,
                    renderVars, lock, spinVars, lines, printed >>

FetchPodMetrics == FetchPodMetricsOf(MetricsAnswers)

\* The Total row and the totals row (lines 270-301).
BuildTotals ==
    /\ pc = "fetch"
    /\ podIdx >= Len(pods)
    /\ podTableData' = Append(podTableData, TotalPodsRow(totals))
    /\ totalTableData' = Append(totalTableData, TotalRow(node, totals))
    /\ pc' = "podLock"
    /\ UNCHANGED << flagVars, exitCode, fatal, driverVars, errorsList, pods, podIdx,
                    responses, totals, renderVars, lock, spinVars, curLine, lines,
                    printed >>

\* lock.Lock() of printPodMetrics (line 303).
PodLock ==
    /\ pc = "podLock"
    /\ lock = "free"
    /\ lock' = "main"
    /\ pc' = "podLoad"
    /\ UNCHANGED << flagVars, exitCode, fatal, driverVars, errorsList, podVars,
                    renderVars, spinVars, curLine, lines, printed >>

\* The table chosen by nodeName == "" (lines 304-312).
SelectTable(name) == IF name = "" THEN "totals" ELSE "detail"

\* loadFunctions(totalTableData) or loadFunctions(podTableData).
PodLoadFunctions ==
    /\ pc = "podLoad"
    /\ tableKind' = SelectTable(nodeName)
    /\ tableData' = IF tableKind' = "totals" THEN totalTableData ELSE podTableData
    /\ columnWidths' = ColumnWidths(tableData')
    /\ alternateColor' = TRUE
    /\ fn' = "pod"
    /\ rowIdx' = 0
    /\ pc' = "erase"
    /\ UNCHANGED << flagVars, exitCode, fatal, driverVars, errorsList, podVars, lock,
                    spinVars, curLine, lines, printed >>

(***************************************************************************)
(* printNodeMetrics (lines 131-161).                                       *)
(***************************************************************************)
\* The node table and loadFunctions(nodeTableData) (lines 133-155).
BuildNodeTable ==
    /\ pc = "nodeBuild"
    /\ tableKind' = "node"
    /\ tableData' = << NodeHeader, NodeRow(node) >>
    /\ columnWidths' = ColumnWidths(tableData')
    /\ alternateColor' = TRUE
    /\ fn' = "node"
    /\ rowIdx' = 0
    /\ pc' = "nodeLock"
    /\ UNCHANGED << flagVars, exitCode, fatal, driverVars, errorsList, podVars, lock,
                    spinVars, curLine, lines, printed >>

\* Mutant: printNodeMetrics renders without taking the lock.
NodeLockMissing ==
    /\ pc = "nodeLock"
    /\ pc' = "erase"
    /\ UNCHANGED << flagVars, exitCode, fatal, driverVars, errorsList, podVars,
                    renderVars, lock, spinVars, curLine, lines, printed >>

\* lock.Lock() of printNodeMetrics (line 157).
NodeLock ==
    /\ pc = "nodeLock"
    /\ lock = "free"
    /\ lock' = "main"
    /\ pc' = "erase"
    /\ UNCHANGED << flagVars, exitCode, fatal, driverVars, errorsList, podVars,
                    renderVars, spinVars, curLine, lines, printed >>

(***************************************************************************)
(* runFunctions (lines 318-337), one action per write.                     *)
(***************************************************************************)
renderKeep == << flagVars, exitCode, fatal, driverVars, errorsList, podVars, tableData,
                 tableKind, columnWidths, fn, lock, spinVars >>

\* fmt.Print("\033[2K\r")
RunErase ==
    /\ pc = "erase"
    /\ curLine' = ""
    /\ lines' = <<>>
    /\ pc' = "top"
    /\ UNCHANGED << renderKeep, alternateColor, rowIdx, printed >>

\* printTopDelimiterRow()
PrintTop ==
    /\ pc = "top"
    /\ lines' = Append(lines, RuleLine("top", columnWidths, curLine))
    /\ curLine' = ""
    /\ pc' = "header"
    /\ UNCHANGED << renderKeep, alternateColor, rowIdx, printed >>

\* printDataRow(tableData[0])
PrintHeader ==
    /\ pc = "header"
    /\ lines' = Append(lines, DataLine(tableData[1], columnWidths, alternateColor, curLine))
    /\ alternateColor' = Toggle(alternateColor)
    /\ curLine' = ""
    /\ pc' = "delimiter"
    /\ UNCHANGED << renderKeep, rowIdx, printed >>

\* printDelimiterRow()
PrintDelimiter ==
    /\ pc = "delimiter"
    /\ lines' = Append(lines, RuleLine("delimiter", columnWidths, curLine))
    /\ curLine' = ""
    /\ rowIdx' = 2
    /\ pc' = "rows"
    /\ UNCHANGED << renderKeep, alternateColor, printed >>

\* for _, row := range tableData[1:] { printDataRow(row) }
PrintRow ==
    /\ pc = "rows"
    /\ rowIdx <= Len(tableData)
    /\ lines' = Append(lines, DataLine(tableData[rowIdx], columnWidths, alternateColor, curLine))
    /\ alternateColor' = Toggle(alternateColor)
    /\ curLine' = ""
    /\ rowIdx' = rowIdx + 1
    /\ UNCHANGED << renderKeep, pc, printed >>

\* printBottomDelimiterRow()
PrintBottom ==
    /\ pc = "rows"
    /\ rowIdx > Len(tableData)
    /\ lines' = Append(lines, RuleLine("bottom", columnWidths, curLine))
    /\ curLine' = ""
    /\ printed' = Append(printed, [k |-> "table", kind |-> tableKind, node |-> node.Name])
    /\ pc' = "unlock"
    /\ UNCHANGED << renderKeep, alternateColor, rowIdx >>

\* lock.Unlock() of printPodMetrics (line 315), which returns.
PodUnlock ==
    /\ pc = "unlock"
    /\ fn = "pod"
    /\ lock' = "free"
    /\ pc' = "nodeBuild"
    /\ pods' = <<>>
    /\ podIdx' = 0
    /\ responses' = <<>>
    /\ podTableData' = <<>>
    /\ totalTableData' = <<>>
    /\ totals' = ZeroTotals
    /\ UNCHANGED << flagVars, exitCode, fatal, driverVars, errorsList, renderVars,
                    spinVars, curLine, lines, printed >>

\* lock.Unlock() of printNodeMetrics (line 160), which returns to the loop.
NodeUnlock ==
    /\ pc = "unlock"
    /\ fn = "node"
    /\ lock' = "free"
    /\ pc' = "loop"
    /\ idx' = idx + 1
    /\ UNCHANGED << flagVars, exitCode, fatal, nodeName, nodes, foundNode, node,
                    errorsList, podVars, renderVars, spinVars, curLine, lines, printed >>

(***************************************************************************)
(* goSpinner (lines 421-431); it dies with the process.                    *)
(***************************************************************************)
spinKeep == << flagVars, pc, exitCode, fatal, driverVars, errorsList, podVars,
               renderVars, lines, printed >>

\* lock.Lock()
SpinLock ==
    /\ pc # "exited"
    /\ spc = "lock"
    /\ lock = "free"
    /\ lock' = "spinner"
    /\ spc' = "print"
    /\ UNCHANGED << spinKeep, spinI, curLine >>

\* fmt.Printf("\r%s ", chars[i])
SpinPrint ==
    /\ pc # "exited"
    /\ spc = "print"
    /\ curLine' = Chars[spinI + 1] \o " "
    /\ spc' = "unlock"
    /\ UNCHANGED << spinKeep, spinI, lock >>

\* Mutant: the spinner goes round without releasing the lock.
SpinUnlockMissing ==
    /\ pc # "exited"
    /\ spc = "unlock"
    /\ spinI' = (spinI + 1) % Len(Chars)
    /\ spc' = "lock"
    /\ UNCHANGED << spinKeep, curLine, lock >>

\* lock.Unlock(); i = (i + 1) % len(chars); time.Sleep(...)
SpinUnlock ==
    /\ pc # "exited"
    /\ spc = "unlock"
    /\ lock' = "free"
    /\ spinI' = (spinI + 1) % Len(Chars)
    /\ spc' = "lock"
    /\ UNCHANGED << spinKeep, curLine >>

(***************************************************************************)
(* The program.                                                            *)
(***************************************************************************)
Setup ==
    \/ ParseFlags \/ LoadKubeConfig \/ NewClientset \/ NewMetricsClientset \/ ListNodes

Loop == LoopAllNodes \/ LoopFoundNode \/ PrintErrors

Tabulate == BuildTotals \/ PodLock \/ PodLoadFunctions \/ BuildNodeTable \/ NodeLock

Render ==
    \/ RunErase \/ PrintTop \/ PrintHeader \/ PrintDelimiter \/ PrintRow \/ PrintBottom
    \/ PodUnlock \/ NodeUnlock

Spinner == SpinLock \/ SpinPrint \/ SpinUnlock

Next == Setup \/ Loop \/ ListPods \/ FetchPodMetrics \/ Tabulate \/ Render \/ Spinner

Spec == Init /\ [][Next]_vars

\* The same program on the smaller clusters of the liveness check.
ListPodsFair == ListPodsOf(PodListsUpTo(node, MaxPodsFair))

FetchPodMetricsFair == FetchPodMetricsOf(MetricsAnswersFair)

NextFair ==
    Setup \/ Loop \/ ListPodsFair \/ FetchPodMetricsFair \/ Tabulate \/ Render \/ Spinner

\* Scheduling: a runnable goroutine is eventually run (every step that stays
\* enabled is taken), and sync.Mutex hands the lock to a waiter that keeps
\* asking for it (starvation mode), so main's Lock calls are strongly fair.
FairSpec ==
    /\ Init /\ [][NextFair]_vars
    /\ WF_vars(ParseFlags) /\ WF_vars(LoadKubeConfig) /\ WF_vars(NewClientset)
    /\ WF_vars(NewMetricsClientset) /\ WF_vars(ListNodes)
    /\ WF_vars(LoopAllNodes) /\ WF_vars(LoopFoundNode) /\ WF_vars(PrintErrors)
    /\ WF_vars(ListPodsFair) /\ WF_vars(FetchPodMetricsFair) /\ WF_vars(BuildTotals)
    /\ WF_vars(PodLoadFunctions) /\ WF_vars(BuildNodeTable)
    /\ WF_vars(RunErase) /\ WF_vars(PrintTop) /\ WF_vars(PrintHeader)
    /\ WF_vars(PrintDelimiter) /\ WF_vars(PrintRow) /\ WF_vars(PrintBottom)
    /\ WF_vars(PodUnlock) /\ WF_vars(NodeUnlock)
    /\ SF_vars(PodLock) /\ SF_vars(NodeLock)
    /\ WF_vars(SpinLock) /\ WF_vars(SpinPrint) /\ WF_vars(SpinUnlock)

(***************************************************************************)
(* What the claims speak about.                                            *)
(***************************************************************************)
\* main is inside runFunctions, between its first and its last table line.
MidRender == pc \in {"top", "header", "delimiter", "rows"}

\* lines holds (part of) the render of tableData.
LinesOfTable == pc \in {"top", "header", "delimiter", "rows", "unlock"}

\* printPodMetrics has finished sampling the node.
Sampled ==
    \/ pc \in {"podLock", "podLoad"}
    \/ pc \in {"erase", "top", "header", "delimiter", "rows", "unlock"} /\ fn = "pod"

\* The run got through setup.
SetupDone == ~helpFlag /\ fatal = ""

\* The container of the pod spec a usage entry names.
InSpec(pod, name) == \E j \in DOMAIN pod.Containers : pod.Containers[j].Name = name

SpecNamed(pod, name) ==
    pod.Containers[CHOOSE j \in DOMAIN pod.Containers :
        /\ pod.Containers[j].Name = name
        /\ \A h \in 1..(j - 1) : pod.Containers[h].Name # name]

\* The usage entries of one answer that pass the match filter, in order.
MatchedOf(pod, ans) ==
    IF ans.err THEN <<>>
    ELSE SelectSeq(ans.Containers, LAMBDA cm : InSpec(pod, cm.Name))

RECURSIVE ExpectedSamples(_, _)
\* The samples of the first n visited pods: pod listing order, then
\* container-metrics order.
ExpectedSamples(ps, rs) ==
    IF rs = <<>> THEN <<>>
    ELSE LET n   == Len(rs)
             pod == ps[n]
             m   == MatchedOf(pod, rs[n])
         IN  ExpectedSamples(ps, SubSeq(rs, 1, n - 1)) \o
             [i \in DOMAIN m |-> SampleOf(pod, m[i], SpecNamed(pod, m[i].Name))]

RECURSIVE SumBack(_, _)
\* The sum of one field, taken from the last sample to the first.
SumBack(samples, f) ==
    IF samples = <<>> THEN 0
    ELSE samples[Len(samples)][f] + SumBack(SubSeq(samples, 1, Len(samples) - 1), f)

ExpectedTotals(samples) ==
    [CPUUsage |-> SumBack(samples, "cpuUsage"),
     CPURequest |-> SumBack(samples, "cpuRequest"),
     CPULimit |-> SumBack(samples, "cpuLimit"),
     MemoryUsage |-> SumBack(samples, "memoryUsage"),
     MemoryRequest |-> SumBack(samples, "memoryRequest"),
     MemoryLimit |-> SumBack(samples, "memoryLimit")]

\* The lines printDataRow printed: the header first, then the data rows.
RowLines == SelectSeq(lines, LAMBDA l : l.part = "row")

SomeUnmatched ==
    \E i \in DOMAIN responses : \E j \in DOMAIN responses[i].Containers :
        ~InSpec(pods[i], responses[i].Containers[j].Name)

SomeFailed == \E i \in DOMAIN responses : responses[i].err

\* C1: once printPodMetrics has sampled a node (and at every point of the
\* sampling loop), each of the six totals is the sum of that field over exactly
\* the usage entries that passed the match filter in the pods whose fetch
\* succeeded, whatever the order of summation, zero when there are none; the
\* printed Total / totals row carries these sums.
Thm_C1 ==
    /\ pc = "fetch" \/ Sampled =>
          totals = ExpectedTotals(ExpectedSamples(pods, responses))
    /\ pc = "unlock" /\ fn = "pod" =>
          LET t == ExpectedTotals(ExpectedSamples(pods, responses))
          IN  RowLines[Len(RowLines)].cells =
                IF tableKind = "detail" THEN TotalPodsRow(t) ELSE TotalRow(node, t)

Wit_C1 ==
    /\ pc = "unlock" /\ fn = "pod"
    /\ SomeFailed /\ SomeUnmatched
    /\ Len(ExpectedSamples(pods, responses)) >= 2
    /\ totals.CPULimit > 0
    /\ totals.CPUUsage # totals.CPURequest

RECURSIVE CountGetErrors(_, _)
CountGetErrors(errs, n) ==
    IF errs = <<>> THEN 0
    ELSE (IF Head(errs).op = "get" /\ Head(errs).node = n THEN 1 ELSE 0)
         + CountGetErrors(Tail(errs), n)

\* C6: the data rows of a node's pod detail table are exactly the usage entries
\* whose container name is in the same pod's spec, one row each, in pod listing
\* order then container-metrics order, followed by one Total row; an entry for a
\* container not in the spec gives no row and no entry of the error list (the
\* node's fetch errors are exactly its failed fetches).
Thm_C6 ==
    pc = "unlock" /\ fn = "pod" /\ tableKind = "detail" =>
        LET exp == ExpectedSamples(pods, responses)
        IN  /\ Len(RowLines) = Len(exp) + 2
            /\ \A i \in DOMAIN exp : RowLines[i + 1].cells = PodRow(exp[i])
            /\ RowLines[Len(exp) + 2].cells[1] = "Total"
            /\ CountGetErrors(errorsList, node.Name) =
                 Cardinality({i \in DOMAIN responses : responses[i].err})

Wit_C6 ==
    /\ pc = "unlock" /\ fn = "pod" /\ tableKind = "detail"
    /\ SomeUnmatched
    /\ Len(responses) = 2
    /\ Len(MatchedOf(pods[1], responses[1])) = 2
    /\ Len(MatchedOf(pods[2], responses[2])) = 1

\* The longest cell of column i over all rows of the table, header included.
MaxCell(t, i) ==
    CHOOSE m \in { Len(t[r][i]) : r \in DOMAIN t } :
        \A r \in DOMAIN t : Len(t[r][i]) <= m

\* C7: in every table rendered, every row has len(header) cells, and on every
\* printed line (borders, header, separator, data rows) column i occupies the
\* longest cell of column i over all rows including the header, plus 2; the
\* widths are those measured before the first line is printed.
Thm_C7 ==
    LinesOfTable =>
        /\ \A r \in DOMAIN tableData : Len(tableData[r]) = Len(tableData[1])
        /\ columnWidths = [i \in DOMAIN tableData[1] |-> MaxCell(tableData, i)]
        /\ \A k \in DOMAIN lines :
              /\ DOMAIN lines[k].widths = DOMAIN tableData[1]
              /\ \A i \in DOMAIN tableData[1] :
                    lines[k].widths[i] = MaxCell(tableData, i) + 2

Wit_C7 ==
    /\ pc = "unlock" /\ tableKind = "detail"
    /\ Len(lines) >= 7
    /\ \E i \in DOMAIN tableData[1] : Len(tableData[1][i]) < MaxCell(tableData, i)
    /\ \E i \in DOMAIN tableData[1] : \E r \in 2..Len(tableData) :
          Len(tableData[r][i]) < Len(tableData[1][i])

\* C8 as stated: the toggle is flipped after each data row and not by the
\* header (the first data row is printed with the toggle state of the header),
\* and every table render starts from the same state.
C8_HeaderKeepsToggle ==
    LinesOfTable =>
        /\ Len(RowLines) >= 1 => RowLines[1].alt = TRUE
        /\ Len(RowLines) >= 2 => RowLines[2].alt = RowLines[1].alt
        /\ \A k \in 3..Len(RowLines) : RowLines[k].alt = ~RowLines[k - 1].alt

\* C8, amended: the toggle is flipped after every printed row, the header
\* included (the first data row has the opposite state of the header, and the
\* rows alternate from there), and every table render starts from the same
\* state, whatever earlier tables printed.
Thm_C8 ==
    LinesOfTable =>
        /\ \A k \in DOMAIN RowLines : RowLines[k].alt = (k % 2 = 1)
        /\ alternateColor = (Len(RowLines) % 2 = 0)

Wit_C8 ==
    /\ pc = "unlock" /\ tableKind = "detail"
    /\ Len(RowLines) >= 4
    /\ Len(printed) >= 3

\* The tables completed so far, in order.
Tables == SelectSeq(printed, LAMBDA e : e.k = "table")

\* The nodes main works on: the one found, else all of the listing.
Scope == IF foundNode = <<>> THEN nodes ELSE foundNode

\* The tables of a run without the spinner: per node of the scope, in listing
\* order, the pod table (detail if a name was asked, else totals), then the
\* node table.
SequentialTables ==
    [i \in 1..(2 * Len(Scope)) |->
        [k |-> "table",
         kind |-> IF i % 2 = 1 THEN SelectTable(nodeName) ELSE "node",
         node |-> Scope[(i + 1) \div 2].Name]]

\* C2 as stated: with a node name as argument the only tables printed are the
\* detail table and the node table of that node, whatever the argument and the
\* node listing; without argument the totals table (not the detail table) and
\* the node table are printed.
C2_OnlyRequestedNode ==
    /\ \A i \in DOMAIN Tables :
          IF nodeFlag # ""
          THEN Tables[i].node = nodeFlag /\ Tables[i].kind \in {"detail", "node"}
          ELSE Tables[i].kind \in {"totals", "node"}
    /\ pc = "exited" /\ SetupDone /\ nodeFlag = "" =>
          \A n \in DOMAIN nodes :
              \E i \in DOMAIN Tables : Tables[i].kind = "totals" /\ Tables[i].node = nodes[n].Name

\* C3 as stated: every fatal setup error ends the run before any table is
\* rendered and with a non-zero exit status.
C3_FatalExitsNonZero ==
    fatal # "" => pc = "exited" /\ Tables = <<>> /\ exitCode # 0

\* A step of the pod loop whose metrics fetch failed.
FetchFailed ==
    /\ pc = "fetch"
    /\ Len(responses') = Len(responses) + 1
    /\ responses'[Len(responses')].err

\* C4: a failed metrics fetch adds no row and nothing to the totals, appends
\* exactly one error, and the loop goes on with the next pod.
C4_FailedFetchStep ==
    FetchFailed =>
        /\ podTableData' = podTableData
        /\ totals' = totals
        /\ Len(errorsList') = Len(errorsList) + 1
        /\ SubSeq(errorsList', 1, Len(errorsList)) = errorsList
        /\ podIdx' = podIdx + 1
        /\ pc' = "fetch"

\* C4: ... every pod of the node is sampled whatever failed before it, and a
\* run that got through setup ends with the tables of every node of its scope.
C4_AllSampledAndRendered ==
    /\ Sampled => Len(responses) = Len(pods)
    /\ pc = "exited" /\ SetupDone => Tables = SequentialTables

\* C4: a failed metrics fetch of one pod gives no row, adds nothing to the
\* totals and exactly one error to the list, and processing continues: the
\* remaining pods are sampled, the node's tables and the remaining nodes'
\* tables are rendered.
Thm_C4 == [][C4_FailedFetchStep]_vars /\ []C4_AllSampledAndRendered

Wit_C4 ==
    /\ pc = "exited"
    /\ Len(Tables) = 4
    /\ Len(errorsList) >= 1
    /\ errorsList[1] = [op |-> "get", node |-> nodes[1].Name, pod |-> PodObj(nodes[1], 1).Name]
    /\ \E i \in DOMAIN printed : printed[i].k = "error"

\* Where the heading of the error list is in printed (0: not printed).
Headings == { i \in DOMAIN printed : printed[i].k = "errors" }

\* C5: the error list is printed at most once, only when the run ends and after
\* the last table of the scope is complete, its entries numbered 1..n in the
\* order the errors were recorded; it is printed if and only if an error was
\* recorded, and nothing (no table) follows it.
Thm_C5 ==
    /\ Cardinality(Headings) <= 1
    /\ \A h \in Headings :
          /\ pc = "exited"
          /\ SubSeq(printed, 1, h - 1) = SequentialTables
          /\ Len(printed) = h + Len(errorsList)
          /\ \A i \in DOMAIN errorsList :
                printed[h + i] = [k |-> "error", n |-> i, err |-> errorsList[i]]
    /\ \A i \in DOMAIN printed : printed[i].k = "error" => \E h \in Headings : h < i
    /\ pc = "exited" /\ SetupDone => (Headings # {} <=> Len(errorsList) > 0)

Wit_C5 ==
    /\ pc = "exited"
    /\ Len(errorsList) >= 3
    /\ Len(Tables) = 4
    /\ Headings # {}
    /\ \E i, j \in DOMAIN errorsList : errorsList[i].op = "list" /\ errorsList[j].op = "get"

\* C9: whatever the interleaving, the spinner does not write between the first
\* and the last line of a table render: main holds the lock for the whole
\* render, the spinner holds it for its write, and no printed table line
\* starts on a line the spinner wrote on.
Thm_C9 ==
    /\ MidRender \/ pc \in {"erase", "unlock"} => lock = "main"
    /\ spc \in {"print", "unlock"} => lock = "spinner" /\ ~MidRender
    /\ \A k \in DOMAIN lines : lines[k].residue = ""

\* The spinner asks for the lock in the middle of a render, after it has
\* already written between two tables.
Wit_C9 ==
    /\ pc = "rows" /\ fn = "node"
    /\ spc = "lock" /\ spinI >= 2
    /\ Len(Tables) >= 1

====
